---- MODULE Spec2Model ----
(***************************************************************************)
(* Model of the kube-arbitrator scheduling core:                           *)
(*   - api.NodeInfo resource accounting (pkg/scheduler/api/node_info.go),  *)
(*   - framework.Session decision operations (Allocate, Pipeline,          *)
(*     dispatch, Preempt, Preemptable, JobReady, JobOrderFn, TaskOrderFn), *)
(*   - the preempt action's Execute loop.                                  *)
(* The specifications share the variables: SpecNode drives the NodeInfo    *)
(* methods directly, SpecReplay binds a virtual node with SetNode,         *)
(* SpecSession drives the Session operations, SpecOrder calls JobOrderFn   *)
(* under stacks of comparators, and SpecPreempt runs preemptAction.Execute *)
(* over a session snapshot.                                                *)
(***************************************************************************)
EXTENDS Integers, Sequences, FiniteSets, TLC

(***************************************************************************)
(* Bounds of the model: the task keys of each specification, the largest   *)
(* node size, and caps on the ghost counters.                              *)
(***************************************************************************)
NumTasks == 3
NumSessionTasks == 2
NumNodeTasks == 2
MaxAlloc == 2
MaxPipelined == 2
MaxEvicts == 1
MaxOrderFns == 2

TaskIDs == 1..NumTasks
SessionTaskIDs == 1..NumSessionTasks
NodeTaskIDs == 1..NumNodeTasks

(***************************************************************************)
(* api.TaskStatus values used by the modelled code.                        *)
(***************************************************************************)
Pending == "Pending"
Allocated == "Allocated"
Pipelined == "Pipelined"
Binding == "Binding"
Running == "Running"
Releasing == "Releasing"

(***************************************************************************)
(* api.Resource: an additive vector; Add and Sub mutate the receiver, so   *)
(* each operator returns the receiver's new value.                         *)
(***************************************************************************)
EmptyResource == [cpu |-> 0, mem |-> 0]

NewResource(cpu, mem) == [cpu |-> cpu, mem |-> mem]

Add(r, rr) == [cpu |-> r.cpu + rr.cpu, mem |-> r.mem + rr.mem]

Sub(r, rr) == [cpu |-> r.cpu - rr.cpu, mem |-> r.mem - rr.mem]

LessEqual(r, rr) == r.cpu <= rr.cpu /\ r.mem <= rr.mem

Resreqs == {NewResource(1, 0), NewResource(1, 1), NewResource(2, 1)}

Allocatables == {NewResource(c, c) : c \in 1..MaxAlloc}

(***************************************************************************)
(* Names that stand for "no job" / "no node" in a TaskInfo, the one host   *)
(* held by the session's NodeIndex and one host missing from it, the jobs  *)
(* of the session's JobIndex and one job UID missing from it.              *)
(***************************************************************************)
NoName == ""
TheHost == "n1"
MissingHost == "n2"
Hostnames == {TheHost, MissingHost}
JobA == "a"
JobB == "b"
JobIDs == {JobA, JobB}
JobC == "c"
OrderJobIDs == {JobA, JobB, JobC}

VARIABLES
    ni,             \* the NodeInfo of the node named TheHost
    tasks,          \* the TaskInfo objects: TaskID -> [Job, Status, NodeName, Resreq]
    JobIndex,       \* ssn.Jobs / ssn.JobIndex: the job UIDs of the snapshot
    eventHandlers,  \* ssn.eventHandlers: which callbacks each handler has
    preemptableFns, \* ssn.preemptableFns
    jobReadyFns,    \* ssn.jobReadyFns
    jobOrderFns,    \* ssn.jobOrderFns
    taskOrderFns,   \* ssn.taskOrderFns
    pc,             \* position of preemptAction.Execute
    preemptors,     \* Execute: priority queue of jobs (JobOrderFn)
    preemptees,     \* Execute: priority queue of jobs (reverse JobOrderFn)
    preemptorTasks, \* Execute: per job, queue of its Pending tasks
    preempteeTasks, \* Execute: per job pushed to preemptees, queue of its Running tasks
    ret,            \* outcome of the last operation: "nil", "err" or "panic"
    last,           \* ghost: the last operation and its arguments
    events,         \* ghost: callbacks invoked by the last operation, in order
    binds,          \* ghost: cache.Bind calls of the last operation (task -> success)
    bindLog,        \* ghost: per task, the outcomes of all cache.Bind calls so far
    evictLog,       \* ghost: per task, the outcomes of all cache.Evict calls on it so far
    pipelinedTotal  \* ghost: sum of Resreq of the PipelineTask calls accounted on ni

pluginVars == <<eventHandlers, preemptableFns, jobReadyFns, jobOrderFns, taskOrderFns>>
actVars == <<pc, preemptors, preemptees, preemptorTasks, preempteeTasks>>
callVars == <<ret, events, binds, bindLog, evictLog>>
vars == <<ni, tasks, JobIndex, pluginVars, actVars, callVars, last, pipelinedTotal>>

BlankTask == [Job |-> NoName, Status |-> Pending, NodeName |-> NoName, Resreq |-> EmptyResource]

(***************************************************************************)
(* NewNodeInfo: a virtual node (node == nil) has empty vectors; a real     *)
(* node starts with Idle = Allocatable.                                    *)
(***************************************************************************)
NewNodeInfo(real, alloc) ==
    IF ~real
    THEN [Node |-> FALSE, Releasing |-> EmptyResource, Idle |-> EmptyResource,
          Used |-> EmptyResource, Allocatable |-> EmptyResource,
          Capability |-> EmptyResource, Tasks |-> {}]
    ELSE [Node |-> TRUE, Releasing |-> EmptyResource, Idle |-> alloc,
          Used |-> EmptyResource, Allocatable |-> alloc,
          Capability |-> alloc, Tasks |-> {}]

(***************************************************************************)
(* NodeInfo.AddTask(task): no-op when the key is already in Tasks;         *)
(* otherwise, on a real node, Releasing += Resreq for a Releasing task,    *)
(* Idle -= Resreq, Used += Resreq; then the task is stored.                *)
(***************************************************************************)
AddTaskNoFoundCheck(n, key, task) ==
    LET acc == IF n.Node
               THEN [n EXCEPT !.Releasing = IF task.Status = Releasing
                                            THEN Add(@, task.Resreq) ELSE @,
                              !.Idle = Sub(@, task.Resreq),
                              !.Used = Add(@, task.Resreq)]
               ELSE n
    IN [acc EXCEPT !.Tasks = @ \cup {key}]

AddTaskNoIdleSub(n, key, task) ==
    IF key \in n.Tasks THEN n
    ELSE LET acc == IF n.Node
                    THEN [n EXCEPT !.Releasing = IF task.Status = Releasing
                                                 THEN Add(@, task.Resreq) ELSE @,
                                   !.Used = Add(@, task.Resreq)]
                    ELSE n
         IN [acc EXCEPT !.Tasks = @ \cup {key}]

AddTask(n, key, task) ==
    IF key \in n.Tasks THEN n
    ELSE LET acc == IF n.Node
                    THEN [n EXCEPT !.Releasing = IF task.Status = Releasing
                                                 THEN Add(@, task.Resreq) ELSE @,
                                   !.Idle = Sub(@, task.Resreq),
                                   !.Used = Add(@, task.Resreq)]
                    ELSE n
         IN [acc EXCEPT !.Tasks = @ \cup {key}]

(***************************************************************************)
(* NodeInfo.PipelineTask(task): no-op when the key is already in Tasks;    *)
(* otherwise, on a real node, Releasing -= Resreq, Used += Resreq; then    *)
(* the task is stored.  Idle is not touched.                               *)
(***************************************************************************)
PipelineTaskFromIdle(n, key, task) ==
    IF key \in n.Tasks THEN n
    ELSE LET acc == IF n.Node
                    THEN [n EXCEPT !.Idle = Sub(@, task.Resreq),
                                   !.Used = Add(@, task.Resreq)]
                    ELSE n
         IN [acc EXCEPT !.Tasks = @ \cup {key}]

PipelineTask(n, key, task) ==
    IF key \in n.Tasks THEN n
    ELSE LET acc == IF n.Node
                    THEN [n EXCEPT !.Releasing = Sub(@, task.Resreq),
                                   !.Used = Add(@, task.Resreq)]
                    ELSE n
         IN [acc EXCEPT !.Tasks = @ \cup {key}]

(***************************************************************************)
(* NodeInfo.RemoveTask(ti): looks the key up and works on the STORED task; *)
(* no-op when absent; on a real node Releasing -= Resreq for a Releasing   *)
(* task, Idle += Resreq, Used -= Resreq; then the key is deleted.          *)
(***************************************************************************)
RemoveTaskNoIdleAdd(n, key, stored) ==
    IF key \notin n.Tasks THEN n
    ELSE LET acc == IF n.Node
                    THEN [n EXCEPT !.Releasing = IF stored.Status = Releasing
                                                 THEN Sub(@, stored.Resreq) ELSE @,
                                   !.Used = Sub(@, stored.Resreq)]
                    ELSE n
         IN [acc EXCEPT !.Tasks = @ \ {key}]

RemoveTaskKeepReleasing(n, key, stored) ==
    IF key \notin n.Tasks THEN n
    ELSE LET acc == IF n.Node
                    THEN [n EXCEPT !.Idle = Add(@, stored.Resreq),
                                   !.Used = Sub(@, stored.Resreq)]
                    ELSE n
         IN [acc EXCEPT !.Tasks = @ \ {key}]

RemoveTask(n, key, stored) ==
    IF key \notin n.Tasks THEN n
    ELSE LET acc == IF n.Node
                    THEN [n EXCEPT !.Releasing = IF stored.Status = Releasing
                                                 THEN Sub(@, stored.Resreq) ELSE @,
                                   !.Idle = Add(@, stored.Resreq),
                                   !.Used = Sub(@, stored.Resreq)]
                    ELSE n
         IN [acc EXCEPT !.Tasks = @ \ {key}]

(***************************************************************************)
(* Caller contracts of Resource.Sub inside AddTask and PipelineTask: the   *)
(* request fits what it is subtracted from (nothing is subtracted on a     *)
(* virtual node or when the call is the already-present no-op).            *)
(***************************************************************************)
AddTaskPre(n, key, task) ==
    ~n.Node \/ key \in n.Tasks \/ LessEqual(task.Resreq, n.Idle)

PipelineTaskPre(n, key, task) ==
    ~n.Node \/ key \in n.Tasks \/ LessEqual(task.Resreq, n.Releasing)

Accounted(n, key) == n.Node /\ key \notin n.Tasks

(***************************************************************************)
(* api.JobInfo as the session uses it.  job.Tasks holds the tasks whose    *)
(* Job field is the job's UID; TaskStatusIndex is the inverted index over  *)
(* Status that UpdateTaskStatus maintains while it rewrites task.Status.   *)
(***************************************************************************)
JobTasks(tks, j) == {t \in DOMAIN tks : tks[t].Job = j}

TaskStatusIndex(tks, j, s) == {t \in JobTasks(tks, j) : tks[t].Status = s}

UpdateTaskStatus(tks, t, s) == [tks EXCEPT ![t].Status = s]

(***************************************************************************)
(* Plugin functions a session can have registered.  A ValidateFn gets the  *)
(* job; a LessFn (preemptable) gets the two tasks; a CompareFn returns a   *)
(* negative, zero or positive number.                                      *)
(***************************************************************************)
ValidateFn(name, tks, j) ==
    CASE name = "allocatedGE2" -> Cardinality(TaskStatusIndex(tks, j, Allocated)) >= 2
      [] name = "noPending" -> TaskStatusIndex(tks, j, Pending) = {}

PreemptableFn(name, preemptor, preemptee) ==
    CASE name = "always" -> TRUE
      [] name = "never" -> FALSE
      [] name = "aOverB" -> tasks[preemptor].Job = JobA /\ tasks[preemptee].Job = JobB

JobScore(name) ==
    CASE name = "tie" -> [j \in OrderJobIDs |-> 0]
      [] name = "aFirst" -> [j \in OrderJobIDs |-> IF j = JobA THEN 0 ELSE 1]
      [] name = "bFirst" -> [j \in OrderJobIDs |-> IF j = JobB THEN 0 ELSE 1]
      [] name = "cFirst" -> [j \in OrderJobIDs |-> IF j = JobC THEN 0 ELSE 1]
      [] name = "aLast" -> [j \in OrderJobIDs |-> IF j = JobA THEN 1 ELSE 0]
      [] name = "bLast" -> [j \in OrderJobIDs |-> IF j = JobB THEN 1 ELSE 0]
      [] name = "cLast" -> [j \in OrderJobIDs |-> IF j = JobC THEN 1 ELSE 0]
      [] name = "cba" -> (JobA :> 3) @@ (JobB :> 2) @@ (JobC :> 1)

JobCompareNames == {"tie", "aFirst", "bFirst", "cFirst", "aLast", "bLast", "cLast", "cba"}

JobCompareFn(name, l, r) ==
    LET score == JobScore(name)
    IN IF score[l] < score[r] THEN -1 ELSE IF score[l] > score[r] THEN 1 ELSE 0

TaskCompareFn(name, l, r) ==
    CASE name = "tie" -> 0
      [] name = "uidDesc" -> IF l > r THEN -1 ELSE IF l < r THEN 1 ELSE 0

HandlerStacks ==
    LET both == [alloc |-> TRUE, evict |-> TRUE]
        allocOnly == [alloc |-> TRUE, evict |-> FALSE]
        evictOnly == [alloc |-> FALSE, evict |-> TRUE]
    IN {<<>>, <<both>>, <<allocOnly, both>>, <<both, evictOnly>>}

JobReadyStacks == {<<>>, <<"allocatedGE2">>, <<"noPending", "allocatedGE2">>}

PreemptableStacks ==
    {<<>>, <<"always">>, <<"aOverB">>, <<"always", "never">>, <<"always", "aOverB">>}

JobOrderStacks == {<<>>, <<"tie">>, <<"tie", "bFirst">>}

TaskOrderStacks == {<<>>, <<"uidDesc">>}

(***************************************************************************)
(* Session.JobReady: every registered ValidateFn accepts the job; with     *)
(* none registered the job is ready.                                       *)
(***************************************************************************)
JobReady(tks, j) ==
    \A i \in 1..Len(jobReadyFns) : ValidateFn(jobReadyFns[i], tks, j)

(***************************************************************************)
(* JobReady(job) for the nil *JobInfo that Allocate passes when the job is *)
(* not in JobIndex.  With no ValidateFn it returns true and Allocate then  *)
(* reads job.TaskStatusIndex through the nil pointer; a registered         *)
(* ValidateFn may return false, return true or fault on the nil job.       *)
(***************************************************************************)
NilJobOutcomes == IF Len(jobReadyFns) = 0 THEN {"panic"} ELSE {"panic", "false"}

(***************************************************************************)
(* Session.Preemptable: false with no PreemptableFn registered, otherwise  *)
(* the conjunction of all of them.                                         *)
(***************************************************************************)
PreemptableIgnoringEmpty(preemptor, preemptee) ==
    \A i \in 1..Len(preemptableFns) :
        PreemptableFn(preemptableFns[i], preemptor, preemptee)

Preemptable(preemptor, preemptee) ==
    IF Len(preemptableFns) = 0 THEN FALSE
    ELSE \A i \in 1..Len(preemptableFns) :
            PreemptableFn(preemptableFns[i], preemptor, preemptee)

(***************************************************************************)
(* The callbacks a session operation runs, handler by handler in           *)
(* registration order: AllocateFunc(task), and in Preempt also             *)
(* EvictFunc(preemptee); a nil callback is skipped.                        *)
(***************************************************************************)
RECURSIVE HandlerEvents(_, _, _, _)
HandlerEvents(i, task, evicted, withEvict) ==
    IF i > Len(eventHandlers) THEN <<>>
    ELSE (IF eventHandlers[i].alloc
          THEN <<[h |-> i, fn |-> "AllocateFunc", task |-> task]>> ELSE <<>>)
         \o (IF withEvict /\ eventHandlers[i].evict
             THEN <<[h |-> i, fn |-> "EvictFunc", task |-> evicted]>> ELSE <<>>)
         \o HandlerEvents(i + 1, task, evicted, withEvict)

AllocateCallbacks(task) == HandlerEvents(1, task, task, FALSE)

PreemptCallbacksOnFailureToo(preemptor, preemptee, ok) ==
    HandlerEvents(1, preemptor, preemptee, TRUE)

PreemptCallbacks(preemptor, preemptee, ok) ==
    IF ok THEN HandlerEvents(1, preemptor, preemptee, TRUE) ELSE <<>>

(***************************************************************************)
(* The tasks Allocate hands to dispatch: every task of the job's Allocated *)
(* bucket if JobReady(job) holds after the allocation, none otherwise.     *)
(***************************************************************************)
DispatchSetOnlyNew(tks, j, t) ==
    IF JobReady(tks, j) THEN {t} ELSE {}

DispatchSet(tks, j, t) ==
    IF JobReady(tks, j) THEN TaskStatusIndex(tks, j, Allocated) ELSE {}

(***************************************************************************)
(* Session.dispatch for each dispatched task: cache.Bind, and on success   *)
(* UpdateTaskStatus(task, Binding); on failure the task is left as it is.  *)
(***************************************************************************)
Dispatched(tks, outcome) ==
    [u \in DOMAIN tks |->
        IF u \in DOMAIN outcome /\ outcome[u]
        THEN UpdateTaskStatus(tks, u, Binding)[u] ELSE tks[u]]

(***************************************************************************)
(* What Allocate returns once its dispatch loop is over: the result of     *)
(* dispatch is dropped and nil is returned.                                *)
(***************************************************************************)
AllocateReturn(outcome) == "nil"

(***************************************************************************)
(* Values shared by the initial states.                                    *)
(***************************************************************************)
NodeIndex == {TheHost}

NoCall == [op |-> "init", key |-> 0, host |-> NoName, peer |-> 0, ok |-> TRUE, pre |-> <<>>]

\* The accounting vectors of a node and whether it holds the key, as recorded
\* in last.pre by a call whose effect a later call is compared with.
Accounting(n, key) ==
    [Idle |-> n.Idle, Used |-> n.Used, Releasing |-> n.Releasing, held |-> key \in n.Tasks]

NoBinds == [t \in {} |-> TRUE]

IdleExecute ==
    /\ pc = "idle"
    /\ preemptors = {}
    /\ preemptees = {}
    /\ preemptorTasks = [j \in {} |-> {}]
    /\ preempteeTasks = [j \in {} |-> {}]

NoCalls ==
    /\ bindLog = [t \in DOMAIN tasks |-> <<>>]
    /\ evictLog = [t \in DOMAIN tasks |-> <<>>]
    /\ ret = "nil"
    /\ last = NoCall
    /\ events = <<>>
    /\ binds = NoBinds
    /\ pipelinedTotal = EmptyResource

(***************************************************************************)
(* SpecNode: the NodeInfo methods called directly with fresh TaskInfo      *)
(* objects (key, status, request drawn from small sets).                   *)
(***************************************************************************)
NodeStatuses == {Running, Releasing}

InitNode ==
    /\ \E real \in BOOLEAN, alloc \in Allocatables :
          /\ real \/ alloc = NewResource(1, 1)
          /\ ni = NewNodeInfo(real, alloc)
    /\ tasks = [t \in NodeTaskIDs |-> BlankTask]
    /\ JobIndex = {}
    /\ eventHandlers = <<>>
    /\ preemptableFns = <<>>
    /\ jobReadyFns = <<>>
    /\ jobOrderFns = <<>>
    /\ taskOrderFns = <<>>
    /\ IdleExecute
    /\ NoCalls

NodeAddTask(t, s, r) ==
    LET task == [BlankTask EXCEPT !.Status = s, !.Resreq = r] IN
    /\ AddTaskPre(ni, t, task)
    /\ ni' = AddTask(ni, t, task)
    /\ tasks' = IF t \in ni.Tasks THEN tasks ELSE [tasks EXCEPT ![t] = task]
    /\ last' = [NoCall EXCEPT !.op = "AddTask", !.key = t]
    /\ UNCHANGED <<JobIndex, pluginVars, actVars, callVars, pipelinedTotal>>

NodePipelineTask(t, s, r) ==
    LET task == [BlankTask EXCEPT !.Status = s, !.Resreq = r] IN
    /\ PipelineTaskPre(ni, t, task)
    /\ Accounted(ni, t) =>
          /\ pipelinedTotal.cpu + r.cpu <= MaxPipelined
          /\ pipelinedTotal.mem + r.mem <= MaxPipelined
    /\ ni' = PipelineTask(ni, t, task)
    /\ tasks' = IF t \in ni.Tasks THEN tasks ELSE [tasks EXCEPT ![t] = task]
    /\ pipelinedTotal' = IF Accounted(ni, t) THEN Add(pipelinedTotal, r)
                         ELSE pipelinedTotal
    /\ last' = [NoCall EXCEPT !.op = "PipelineTask", !.key = t]
    /\ UNCHANGED <<JobIndex, pluginVars, actVars, callVars>>

NodeRemoveTask(t) ==
    /\ ni' = RemoveTask(ni, t, tasks[t])
    /\ tasks' = [tasks EXCEPT ![t] = BlankTask]
    /\ last' = [NoCall EXCEPT !.op = "RemoveTask", !.key = t]
    /\ UNCHANGED <<JobIndex, pluginVars, actVars, callVars, pipelinedTotal>>

NextNode ==
    \/ \E t \in NodeTaskIDs, s \in NodeStatuses, r \in Resreqs : NodeAddTask(t, s, r)
    \/ \E t \in NodeTaskIDs, s \in NodeStatuses, r \in Resreqs : NodePipelineTask(t, s, r)
    \/ \E t \in NodeTaskIDs : NodeRemoveTask(t)

SpecNode == InitNode /\ [][NextNode]_vars

(***************************************************************************)
(* C1 (as stated): on a real node Used - Releasing + Idle = Allocatable    *)
(* componentwise in every reachable state.                                 *)
(***************************************************************************)
C1_UsedMinusReleasingPlusIdle ==
    ni.Node => Add(Sub(ni.Used, ni.Releasing), ni.Idle) = ni.Allocatable

(***************************************************************************)
(* C1 (amended): on a real node Used + Idle = Allocatable plus the total   *)
(* request of the PipelineTask calls accounted on the node; Releasing does *)
(* not enter the balance.  Without pipelining, Used + Idle = Allocatable.  *)
(***************************************************************************)
C1_UsedPlusIdleBalance ==
    ni.Node => Add(ni.Used, ni.Idle) = Add(ni.Allocatable, pipelinedTotal)

C1_Witness ==
    /\ ni.Node
    /\ last.op = "RemoveTask"
    /\ pipelinedTotal # EmptyResource
    /\ \E t \in ni.Tasks : tasks[t].Status = Releasing

(***************************************************************************)
(* The sum of Resreq over a set of held tasks.                             *)
(***************************************************************************)
RECURSIVE SumResreq(_, _)
SumResreq(tks, held) ==
    IF held = {} THEN EmptyResource
    ELSE LET t == CHOOSE u \in held : TRUE
         IN Add(tks[t].Resreq, SumResreq(tks, held \ {t}))

HeldReleasing == {t \in ni.Tasks : tasks[t].Status = Releasing}

(***************************************************************************)
(* C11 (as stated): on a real node Releasing equals the sum of Resreq over *)
(* the tasks of the Tasks map whose status is Releasing, in every state    *)
(* reachable by AddTask / RemoveTask / PipelineTask.                       *)
(***************************************************************************)
C11_ReleasingIsSumOfReleasing ==
    ni.Node => ni.Releasing = SumResreq(tasks, HeldReleasing)

(***************************************************************************)
(* C11 (amended): on a real node Releasing equals the sum of Resreq over   *)
(* the held Releasing tasks as long as no PipelineTask was accounted; each *)
(* accounted PipelineTask lowers Releasing by its request without taking   *)
(* any Releasing task off the node, so in every reachable state Releasing  *)
(* is at most that sum minus the total pipelined request.                  *)
(***************************************************************************)
C11_ReleasingSumLessPipelined ==
    ni.Node =>
       /\ LessEqual(ni.Releasing, Sub(SumResreq(tasks, HeldReleasing), pipelinedTotal))
       /\ pipelinedTotal = EmptyResource
             => ni.Releasing = SumResreq(tasks, HeldReleasing)

C11_Witness ==
    /\ ni.Node
    /\ last.op = "RemoveTask"
    /\ Cardinality(HeldReleasing) = 1
    /\ ni.Releasing = NewResource(0, 0)
    /\ pipelinedTotal = NewResource(1, 1)

(***************************************************************************)
(* C15: on a real node, with every AddTask fitting Idle and every          *)
(* PipelineTask fitting Releasing at the time of the call, every component *)
(* of Idle, Used and Releasing is non-negative in every reachable state.   *)
(***************************************************************************)
C15_NonNegative ==
    ni.Node => /\ LessEqual(EmptyResource, ni.Idle)
               /\ LessEqual(EmptyResource, ni.Used)
               /\ LessEqual(EmptyResource, ni.Releasing)

(***************************************************************************)
(* C16: AddTask and PipelineTask called with a task whose key is already   *)
(* in the node's Tasks map change nothing: Idle, Used, Releasing and Tasks *)
(* (the key set and the stored task) are as before the call.               *)
(***************************************************************************)
C16_AlreadyPresentNoOp ==
    [][(last'.op \in {"AddTask", "PipelineTask"} /\ last'.key \in ni.Tasks)
       => /\ ni'.Idle = ni.Idle
          /\ ni'.Used = ni.Used
          /\ ni'.Releasing = ni.Releasing
          /\ ni'.Tasks = ni.Tasks
          /\ ni' = ni
          /\ tasks'[last'.key] = tasks[last'.key]
          /\ pipelinedTotal' = pipelinedTotal]_vars

C16_Witness ==
    /\ ni.Node
    /\ last.op = "PipelineTask"
    /\ last.key \in ni.Tasks
    /\ tasks[last.key].Status = Releasing
    /\ ni.Releasing = tasks[last.key].Resreq
    /\ pipelinedTotal = EmptyResource

(***************************************************************************)
(* NodeInfo.SetNode(node): on a node that has no backing object yet, Idle  *)
(* is seeded from node.Status.Allocatable and every held task is replayed  *)
(* (Releasing += Resreq for a Releasing task, Idle -= Resreq, Used +=      *)
(* Resreq); in every case Node, Allocatable and Capability are set.        *)
(***************************************************************************)
RECURSIVE ReplayTasks(_, _, _)
ReplayTasks(n, tks, held) ==
    IF held = {} THEN n
    ELSE LET t == CHOOSE u \in held : TRUE
             acc == [n EXCEPT !.Releasing = IF tks[t].Status = Releasing
                                            THEN Add(@, tks[t].Resreq) ELSE @,
                              !.Idle = Sub(@, tks[t].Resreq),
                              !.Used = Add(@, tks[t].Resreq)]
         IN ReplayTasks(acc, tks, held \ {t})

SetNodeNoReplay(n, tks, alloc) ==
    LET seeded == IF ~n.Node THEN [n EXCEPT !.Idle = alloc] ELSE n
    IN [seeded EXCEPT !.Node = TRUE, !.Allocatable = alloc, !.Capability = alloc]

SetNode(n, tks, alloc) ==
    LET replayed == IF ~n.Node
                    THEN ReplayTasks([n EXCEPT !.Idle = alloc], tks, n.Tasks)
                    ELSE n
    IN [replayed EXCEPT !.Node = TRUE, !.Allocatable = alloc, !.Capability = alloc]

\* Caller contract of the Idle.Sub calls of the replay: the held tasks fit.
SetNodePre(n, tks, alloc) ==
    n.Node \/ LessEqual(SumResreq(tks, n.Tasks), alloc)

(***************************************************************************)
(* The node of a snapshot: the cache builds it with NewNodeInfo and one    *)
(* AddTask per task placed on it.                                          *)
(***************************************************************************)
RECURSIVE SnapshotNode(_, _, _)
SnapshotNode(n, tks, onNode) ==
    IF onNode = {} THEN n
    ELSE LET t == CHOOSE u \in onNode : TRUE
         IN SnapshotNode(AddTask(n, t, tks[t]), tks, onNode \ {t})

OnNode(tks) == {t \in DOMAIN tks : tks[t].NodeName = TheHost}

(***************************************************************************)
(* SpecReplay: a node created without a backing object collects tasks with *)
(* AddTask and is bound to its node with SetNode; AddTask and SetNode go   *)
(* on being called afterwards.  last.ok tells whether the SetNode was the  *)
(* first binding.                                                          *)
(***************************************************************************)
InitReplay == InitNode /\ ~ni.Node

NodeSetNode(alloc) ==
    /\ SetNodePre(ni, tasks, alloc)
    /\ ni' = SetNode(ni, tasks, alloc)
    /\ last' = [NoCall EXCEPT !.op = "SetNode", !.ok = ~ni.Node]
    /\ UNCHANGED <<tasks, JobIndex, pluginVars, actVars, callVars, pipelinedTotal>>

NextReplay ==
    \/ \E t \in NodeTaskIDs, s \in NodeStatuses, r \in Resreqs : NodeAddTask(t, s, r)
    \/ \E alloc \in Allocatables : NodeSetNode(alloc)

SpecReplay == InitReplay /\ [][NextReplay]_vars

(***************************************************************************)
(* C19: right after the SetNode that binds a virtual node holding tasks    *)
(* added with AddTask, Idle, Used, Releasing and Allocatable are those of  *)
(* the node built by NewNodeInfo(node) followed by AddTask of the same     *)
(* tasks: Used is the sum of Resreq over the held tasks, Releasing the sum *)
(* over the held Releasing tasks, and Idle = Allocatable - Used.           *)
(***************************************************************************)
C19_SetNodeReplayEquivalence ==
    (last.op = "SetNode" /\ last.ok)
    => LET direct == SnapshotNode(NewNodeInfo(TRUE, ni.Allocatable), tasks, ni.Tasks)
       IN /\ ni.Node
          /\ ni.Idle = direct.Idle
          /\ ni.Used = direct.Used
          /\ ni.Releasing = direct.Releasing
          /\ ni.Allocatable = direct.Allocatable
          /\ ni.Tasks = direct.Tasks
          /\ ni.Used = SumResreq(tasks, ni.Tasks)
          /\ ni.Releasing = SumResreq(tasks, HeldReleasing)
          /\ ni.Idle = Sub(ni.Allocatable, ni.Used)

C19_Witness ==
    /\ last.op = "SetNode"
    /\ last.ok
    /\ Cardinality(ni.Tasks) = 2
    /\ Cardinality(HeldReleasing) = 1
    /\ ni.Idle = EmptyResource
    /\ ni.Used = NewResource(2, 2)

(***************************************************************************)
(* SpecSession: an open session over a snapshot with one node; the         *)
(* decision operations Allocate, Pipeline and Preempt are called on it.    *)
(* Callers take the task to place from the Pending bucket and respect the  *)
(* fit contracts of AddTask / PipelineTask.                                *)
(***************************************************************************)
SessionTasks(r) ==
    {tks \in [SessionTaskIDs -> [Job : JobIDs, Status : {Pending, Running, Releasing},
                                 NodeName : {NoName, TheHost}, Resreq : {r}]] :
        \A t \in SessionTaskIDs :
            /\ (tks[t].Status # Pending) <=> (tks[t].NodeName = TheHost)
            /\ tks[t].Status # Pending => t = 1}

SessionPlugins ==
    {<<h, <<>>>> : h \in HandlerStacks}
        \cup {<<<<[alloc |-> TRUE, evict |-> TRUE]>>, v>> : v \in JobReadyStacks}

InitSession ==
    /\ tasks \in SessionTasks(NewResource(1, 1))
    /\ ni = SnapshotNode(NewNodeInfo(TRUE, NewResource(MaxAlloc, MaxAlloc)),
                         tasks, OnNode(tasks))
    /\ JobIndex = {JobA}
    /\ \E p \in SessionPlugins : eventHandlers = p[1] /\ jobReadyFns = p[2]
    /\ preemptableFns = <<>>
    /\ jobOrderFns = <<>>
    /\ taskOrderFns = <<>>
    /\ IdleExecute
    /\ NoCalls

(***************************************************************************)
(* Session.Allocate(task, hostname).                                       *)
(***************************************************************************)
Allocate(t, hostname) ==
    LET job == tasks[t].Job
        found == job \in JobIndex
        t1 == IF found THEN UpdateTaskStatus(tasks, t, Allocated) ELSE tasks
        t2 == [t1 EXCEPT ![t].NodeName = hostname]
    IN
    /\ ret # "panic"
    /\ tasks[t].Status = Pending
    /\ hostname \in NodeIndex => AddTaskPre(ni, t, t2[t])
    /\ ni' = IF hostname \in NodeIndex THEN AddTask(ni, t, t2[t]) ELSE ni
    /\ events' = AllocateCallbacks(t)
    /\ last' = [NoCall EXCEPT !.op = "Allocate", !.key = t, !.host = hostname,
                              !.pre = IF hostname \in NodeIndex
                                      THEN <<Accounting(ni, t)>> ELSE <<>>]
    /\ IF found
       THEN \E outcome \in [DispatchSet(t2, job, t) -> BOOLEAN] :
               /\ tasks' = Dispatched(t2, outcome)
               /\ binds' = outcome
               /\ bindLog' = [u \in DOMAIN tasks |->
                                IF u \in DOMAIN outcome
                                THEN Append(bindLog[u], outcome[u]) ELSE bindLog[u]]
               /\ ret' = AllocateReturn(outcome)
       ELSE \E o \in NilJobOutcomes :
               /\ tasks' = t2
               /\ binds' = NoBinds
               /\ bindLog' = bindLog
               /\ ret' = IF o = "panic" THEN "panic" ELSE "nil"
    /\ UNCHANGED <<JobIndex, pluginVars, actVars, evictLog, pipelinedTotal>>

(***************************************************************************)
(* Session.Pipeline(task, hostname).                                       *)
(***************************************************************************)
Pipeline(t, hostname) ==
    LET job == tasks[t].Job
        found == job \in JobIndex
        t1 == IF found THEN UpdateTaskStatus(tasks, t, Pipelined) ELSE tasks
        t2 == [t1 EXCEPT ![t].NodeName = hostname]
        accounted == hostname \in NodeIndex /\ Accounted(ni, t)
    IN
    /\ ret # "panic"
    /\ tasks[t].Status = Pending
    /\ hostname \in NodeIndex => PipelineTaskPre(ni, t, t2[t])
    /\ tasks' = t2
    /\ ni' = IF hostname \in NodeIndex THEN PipelineTask(ni, t, t2[t]) ELSE ni
    /\ pipelinedTotal' = IF accounted THEN Add(pipelinedTotal, t2[t].Resreq)
                         ELSE pipelinedTotal
    /\ events' = AllocateCallbacks(t)
    /\ binds' = NoBinds
    /\ ret' = "nil"
    /\ last' = [NoCall EXCEPT !.op = "Pipeline", !.key = t, !.host = hostname]
    /\ UNCHANGED <<JobIndex, pluginVars, actVars, bindLog, evictLog>>

(***************************************************************************)
(* Session.Preempt(preemptor, preemptee): cache.Evict(preemptee); on error *)
(* return it; on success run the callbacks and return nil.  ok is the      *)
(* outcome of cache.Evict.                                                 *)
(***************************************************************************)
RECURSIVE SumLen(_, _)
SumLen(f, n) == IF n = 0 THEN 0 ELSE Len(f[n]) + SumLen(f, n - 1)

TotalEvicts == SumLen(evictLog, Cardinality(DOMAIN evictLog))

PreemptCall(preemptor, preemptee, ok) ==
    /\ evictLog' = [evictLog EXCEPT ![preemptee] = Append(@, ok)]
    /\ events' = PreemptCallbacks(preemptor, preemptee, ok)
    /\ ret' = IF ok THEN "nil" ELSE "err"
    /\ binds' = NoBinds
    /\ last' = [NoCall EXCEPT !.op = "Preempt", !.key = preemptor,
                              !.peer = preemptee, !.ok = ok]
    /\ UNCHANGED <<ni, tasks, JobIndex, pluginVars, bindLog, pipelinedTotal>>

Preempt(preemptor, preemptee) ==
    /\ ret # "panic"
    /\ preemptor # preemptee
    /\ tasks[preemptor].Status = Pending
    /\ tasks[preemptee].Status = Running
    /\ TotalEvicts < MaxEvicts
    /\ \E ok \in BOOLEAN : PreemptCall(preemptor, preemptee, ok)
    /\ UNCHANGED actVars

(***************************************************************************)
(* node.RemoveTask(task) called on the session's node for a task of the    *)
(* session.  The TaskInfo itself is not changed.  last.pre carries the     *)
(* node's accounting from before the Allocate of the same task when that   *)
(* Allocate is the call just before this one.                              *)
(***************************************************************************)
SessionRemoveTask(t) ==
    /\ ret # "panic"
    /\ ni' = RemoveTask(ni, t, tasks[t])
    /\ ret' = "nil"
    /\ events' = <<>>
    /\ binds' = NoBinds
    /\ last' = [NoCall EXCEPT !.op = "RemoveTask", !.key = t, !.host = TheHost,
                              !.pre = IF last.op = "Allocate" /\ last.key = t
                                      THEN last.pre ELSE <<>>]
    /\ UNCHANGED <<tasks, JobIndex, pluginVars, actVars, bindLog, evictLog, pipelinedTotal>>

NextSession ==
    \/ \E t \in SessionTaskIDs, h \in Hostnames : Allocate(t, h)
    \/ \E t \in SessionTaskIDs, h \in Hostnames : Pipeline(t, h)
    \/ \E a, b \in SessionTaskIDs : Preempt(a, b)
    \/ \E t \in SessionTaskIDs : SessionRemoveTask(t)

SpecSession == InitSession /\ [][NextSession]_vars

(***************************************************************************)
(* Session.JobOrderFn / Session.TaskOrderFn: the first registered          *)
(* comparator that returns non-zero decides; on a total tie the smaller    *)
(* UID goes first.  Job UIDs are strings, compared as Go compares them.    *)
(***************************************************************************)
JobUIDRank == (JobA :> 1) @@ (JobB :> 2) @@ (JobC :> 3)

RECURSIVE FirstNonZeroJob(_, _, _)
FirstNonZeroJob(i, l, r) ==
    IF i > Len(jobOrderFns) THEN 0
    ELSE LET j == JobCompareFn(jobOrderFns[i], l, r)
         IN IF j # 0 THEN j ELSE FirstNonZeroJob(i + 1, l, r)

JobOrderFnUIDLessEqual(l, r) ==
    LET j == FirstNonZeroJob(1, l, r)
    IN IF j # 0 THEN j < 0 ELSE JobUIDRank[l] <= JobUIDRank[r]

JobOrderFn(l, r) ==
    LET j == FirstNonZeroJob(1, l, r)
    IN IF j # 0 THEN j < 0 ELSE JobUIDRank[l] < JobUIDRank[r]

RECURSIVE FirstNonZeroTask(_, _, _)
FirstNonZeroTask(i, l, r) ==
    IF i > Len(taskOrderFns) THEN 0
    ELSE LET j == TaskCompareFn(taskOrderFns[i], l, r)
         IN IF j # 0 THEN j ELSE FirstNonZeroTask(i + 1, l, r)

TaskOrderFn(l, r) ==
    LET j == FirstNonZeroTask(1, l, r)
    IN IF j # 0 THEN j < 0 ELSE l < r

jobRevOrderFn(l, r) == ~JobOrderFn(l, r)

(***************************************************************************)
(* SpecOrder: a session with three jobs and any stack of up to MaxOrderFns *)
(* registered job comparators; JobOrderFn is called on pairs of jobs.      *)
(* last records the UID ranks of the two arguments and the result.         *)
(***************************************************************************)
OrderStacks == UNION {[1..n -> JobCompareNames] : n \in 0..MaxOrderFns}

JobOfRank(k) == CHOOSE j \in OrderJobIDs : JobUIDRank[j] = k

InitOrder ==
    /\ ni = NewNodeInfo(FALSE, EmptyResource)
    /\ tasks = [t \in {} |-> BlankTask]
    /\ JobIndex = OrderJobIDs
    /\ eventHandlers = <<>>
    /\ preemptableFns = <<>>
    /\ jobReadyFns = <<>>
    /\ jobOrderFns \in OrderStacks
    /\ taskOrderFns = <<>>
    /\ IdleExecute
    /\ NoCalls

CallJobOrderFn(l, r) ==
    /\ last' = [NoCall EXCEPT !.op = "JobOrderFn", !.key = JobUIDRank[l],
                              !.peer = JobUIDRank[r], !.ok = JobOrderFn(l, r)]
    /\ UNCHANGED <<ni, tasks, JobIndex, pluginVars, actVars, callVars, pipelinedTotal>>

NextOrder == \E l, r \in JobIndex : CallJobOrderFn(l, r)

SpecOrder == InitOrder /\ [][NextOrder]_vars

(***************************************************************************)
(* C14: for every stack of registered comparators Session.JobOrderFn is a  *)
(* strict weak order over the jobs: irreflexive, asymmetric, transitive,   *)
(* and with a transitive "neither goes first" relation; every call returns *)
(* the order's verdict, decided by the first comparator that returns       *)
(* non-zero and by the smaller UID on a total tie.                         *)
(***************************************************************************)
C14_JobOrderStrictWeak ==
    /\ \A l \in JobIndex : ~JobOrderFn(l, l)
    /\ \A l, r \in JobIndex : JobOrderFn(l, r) => ~JobOrderFn(r, l)
    /\ \A l, r, m \in JobIndex : JobOrderFn(l, r) /\ JobOrderFn(r, m) => JobOrderFn(l, m)
    /\ \A l, r, m \in JobIndex :
          (/\ ~JobOrderFn(l, r) /\ ~JobOrderFn(r, l)
           /\ ~JobOrderFn(r, m) /\ ~JobOrderFn(m, r))
          => ~JobOrderFn(l, m) /\ ~JobOrderFn(m, l)
    /\ last.op = "JobOrderFn" =>
          LET l == JobOfRank(last.key)
              r == JobOfRank(last.peer)
              decided == {i \in 1..Len(jobOrderFns) : JobCompareFn(jobOrderFns[i], l, r) # 0}
          IN /\ last.key = last.peer => ~last.ok
             /\ decided = {} => (last.ok <=> last.key < last.peer)
             /\ decided # {} =>
                   LET first == CHOOSE i \in decided : \A k \in decided : i <= k
                   IN last.ok <=> JobCompareFn(jobOrderFns[first], l, r) < 0

C14_Witness ==
    /\ last.op = "JobOrderFn"
    /\ Len(jobOrderFns) = 2
    /\ JobCompareFn(jobOrderFns[1], JobOfRank(last.key), JobOfRank(last.peer)) = 0
    /\ JobCompareFn(jobOrderFns[2], JobOfRank(last.key), JobOfRank(last.peer)) < 0
    /\ last.key > last.peer
    /\ last.ok

taskRevOrderFn(l, r) == ~TaskOrderFn(l, r)

(***************************************************************************)
(* util.PriorityQueue: Pop returns the element that the queue's LessFn     *)
(* puts before every other element held.  One operator per queue of        *)
(* Execute: preemptors, preemptees, preemptorTasks[j], preempteeTasks[j].   *)
(***************************************************************************)
PopPreemptorJob(q) == CHOOSE x \in q : \A y \in q \ {x} : JobOrderFn(x, y)

PopPreempteeJob(q) == CHOOSE x \in q : \A y \in q \ {x} : jobRevOrderFn(x, y)

PopPreemptorTask(q) == CHOOSE x \in q : \A y \in q \ {x} : TaskOrderFn(x, y)

PopPreempteeTask(q) == CHOOSE x \in q : \A y \in q \ {x} : taskRevOrderFn(x, y)

(***************************************************************************)
(* Execute, lines 138-141: pop preempteeJob; while its task queue is empty *)
(* and it is not the preemptor's job, pop the next one.  The inner Pop is  *)
(* not guarded by Empty(): on an empty queue the popped value cannot be    *)
(* asserted to *api.JobInfo and the goroutine panics.                      *)
(***************************************************************************)
RECURSIVE SelectPreemptee(_, _)
SelectPreemptee(q, preemptorJob) ==
    LET preempteeJob == PopPreempteeJob(q)
        rest == q \ {preempteeJob}
    IN IF preempteeTasks[preempteeJob] = {} /\ preemptorJob # preempteeJob
       THEN IF rest = {}
            THEN [panic |-> TRUE, job |-> preempteeJob, rest |-> rest]
            ELSE SelectPreemptee(rest, preemptorJob)
       ELSE [panic |-> FALSE, job |-> preempteeJob, rest |-> rest]

(***************************************************************************)
(* Execute, line 144: the preemptor job and the preemptee job coincide.    *)
(***************************************************************************)
SameJobNever(preemptorJob, preempteeJob) == FALSE

SameJob(preemptorJob, preempteeJob) == preemptorJob = preempteeJob

(***************************************************************************)
(* SpecPreempt: preemptAction.Execute over a snapshot whose tasks are      *)
(* Pending or Running.  One step per loop iteration.                       *)
(***************************************************************************)
PreemptTasks ==
    {tks \in [TaskIDs -> [Job : JobIDs, Status : {Pending, Running},
                          NodeName : {NoName, TheHost}, Resreq : {NewResource(1, 1)}]] :
        \A t \in TaskIDs : (tks[t].Status = Running) <=> (tks[t].NodeName = TheHost)}

InitPreempt ==
    /\ tasks \in PreemptTasks
    /\ ni = SnapshotNode(NewNodeInfo(TRUE, NewResource(NumTasks, NumTasks)),
                         tasks, OnNode(tasks))
    /\ JobIndex \in SUBSET JobIDs
    /\ eventHandlers \in HandlerStacks
    /\ jobReadyFns = <<>>
    /\ preemptableFns \in PreemptableStacks
    /\ jobOrderFns \in JobOrderStacks
    /\ taskOrderFns \in TaskOrderStacks
    /\ IdleExecute
    /\ NoCalls

NoCallMade ==
    UNCHANGED <<ni, tasks, JobIndex, pluginVars, callVars, last, pipelinedTotal>>

\* Lines 101-123: build the four queues from the snapshot.
ExecuteStart ==
    /\ pc = "idle"
    /\ pc' = "loop"
    /\ preemptors' = JobIndex
    /\ preemptorTasks' = [j \in JobIndex |-> TaskStatusIndex(tasks, j, Pending)]
    /\ preemptees' = {j \in JobIndex : TaskStatusIndex(tasks, j, Running) # {}}
    /\ preempteeTasks' = [j \in {k \in JobIndex : TaskStatusIndex(tasks, k, Running) # {}}
                            |-> TaskStatusIndex(tasks, j, Running)]
    /\ NoCallMade

\* Lines 126-129: no preemptors or no preemptees.
IterBreakEmpty ==
    /\ pc = "loop"
    /\ preemptors = {} \/ preemptees = {}
    /\ pc' = "doneEmpty"
    /\ UNCHANGED <<preemptors, preemptees, preemptorTasks, preempteeTasks>>
    /\ NoCallMade

\* Lines 131-136: the popped preemptor job has no pending task left.
IterContinue ==
    /\ pc = "loop"
    /\ preemptors # {} /\ preemptees # {}
    /\ LET preemptorJob == PopPreemptorJob(preemptors)
       IN /\ preemptorTasks[preemptorJob] = {}
          /\ preemptors' = preemptors \ {preemptorJob}
    /\ UNCHANGED <<pc, preemptees, preemptorTasks, preempteeTasks>>
    /\ NoCallMade

\* Lines 138-141 running out of preemptee jobs: Pop on the empty queue.
IterPanic ==
    /\ pc = "loop"
    /\ preemptors # {} /\ preemptees # {}
    /\ LET preemptorJob == PopPreemptorJob(preemptors)
           sel == SelectPreemptee(preemptees, preemptorJob)
       IN /\ preemptorTasks[preemptorJob] # {}
          /\ sel.panic
          /\ preemptors' = preemptors \ {preemptorJob}
          /\ preemptees' = sel.rest
    /\ pc' = "panic"
    /\ ret' = "panic"
    /\ UNCHANGED <<preemptorTasks, preempteeTasks>>
    /\ UNCHANGED <<ni, tasks, JobIndex, pluginVars, events, binds, bindLog, evictLog,
                   last, pipelinedTotal>>

\* Lines 143-146: preemptor and preemptee are the same job.
IterSameJob ==
    /\ pc = "loop"
    /\ preemptors # {} /\ preemptees # {}
    /\ LET preemptorJob == PopPreemptorJob(preemptors)
           sel == SelectPreemptee(preemptees, preemptorJob)
       IN /\ preemptorTasks[preemptorJob] # {}
          /\ ~sel.panic
          /\ SameJob(preemptorJob, sel.job)
          /\ preemptors' = preemptors \ {preemptorJob}
          /\ preemptees' = sel.rest
    /\ pc' = "doneSame"
    /\ UNCHANGED <<preemptorTasks, preempteeTasks>>
    /\ NoCallMade

IterAttemptRequeuePreemptor(outcome) ==
    /\ pc = "loop"
    /\ preemptors # {} /\ preemptees # {}
    /\ LET preemptorJob == PopPreemptorJob(preemptors)
           sel == SelectPreemptee(preemptees, preemptorJob)
       IN /\ preemptorTasks[preemptorJob] # {}
          /\ ~sel.panic
          /\ ~SameJob(preemptorJob, sel.job)
          /\ LET preempteeJob == sel.job
                 preemptor == PopPreemptorTask(preemptorTasks[preemptorJob])
                 preemptee == PopPreempteeTask(preempteeTasks[preempteeJob])
             IN /\ IF Preemptable(preemptor, preemptee)
                   THEN /\ outcome \in {"failed", "preempted"}
                        /\ PreemptCall(preemptor, preemptee, outcome = "preempted")
                   ELSE /\ outcome = "denied"
                        /\ NoCallMade
                /\ preemptors' = preemptors
                /\ preemptorTasks' = [preemptorTasks EXCEPT ![preemptorJob] = @ \ {preemptor}]
                /\ preempteeTasks' = IF outcome = "preempted"
                                     THEN [preempteeTasks EXCEPT ![preempteeJob] = @ \ {preemptee}]
                                     ELSE preempteeTasks
                /\ preemptees' = sel.rest \cup {preempteeJob}
    /\ UNCHANGED pc

\* Lines 152-177: one preemption attempt.  outcome is "denied" (Preemptable
\* is false), "failed" (cache.Evict returned an error) or "preempted".
IterAttempt(outcome) ==
    /\ pc = "loop"
    /\ preemptors # {} /\ preemptees # {}
    /\ LET preemptorJob == PopPreemptorJob(preemptors)
           sel == SelectPreemptee(preemptees, preemptorJob)
       IN /\ preemptorTasks[preemptorJob] # {}
          /\ ~sel.panic
          /\ ~SameJob(preemptorJob, sel.job)
          /\ LET preempteeJob == sel.job
                 preemptor == PopPreemptorTask(preemptorTasks[preemptorJob])
                 preemptee == PopPreempteeTask(preempteeTasks[preempteeJob])
             IN /\ IF Preemptable(preemptor, preemptee)
                   THEN /\ outcome \in {"failed", "preempted"}
                        /\ PreemptCall(preemptor, preemptee, outcome = "preempted")
                   ELSE /\ outcome = "denied"
                        /\ NoCallMade
                /\ preemptors' = IF outcome = "preempted" THEN preemptors
                                 ELSE preemptors \ {preemptorJob}
                /\ preemptorTasks' = [preemptorTasks EXCEPT ![preemptorJob] = @ \ {preemptor}]
                /\ preempteeTasks' = IF outcome = "preempted"
                                     THEN [preempteeTasks EXCEPT ![preempteeJob] = @ \ {preemptee}]
                                     ELSE preempteeTasks
                /\ preemptees' = sel.rest \cup {preempteeJob}
    /\ UNCHANGED pc

IterDenied == IterAttempt("denied")

IterEvictFailed == IterAttempt("failed")

IterPreempted == IterAttempt("preempted")

NextPreempt ==
    \/ ExecuteStart
    \/ IterBreakEmpty
    \/ IterContinue
    \/ IterPanic
    \/ IterSameJob
    \/ IterDenied
    \/ IterEvictFailed
    \/ IterPreempted

SpecPreempt == InitPreempt /\ [][NextPreempt]_vars

(***************************************************************************)
(* C2: gang dispatch.  In every Allocate of a task whose job is indexed:   *)
(* if JobReady(job) is false once the task is allocated, cache.Bind is not *)
(* called at all; if it is true, cache.Bind is called exactly once for     *)
(* every task then in the job's Allocated bucket (tasks allocated by       *)
(* earlier calls included) and for no other task, and every task whose     *)
(* Bind succeeded is Binding afterwards.                                   *)
(***************************************************************************)
C2_GangDispatch ==
    [][(/\ last'.op = "Allocate"
        /\ tasks[last'.key].Status = Pending
        /\ tasks[last'.key].Job \in JobIndex)
       => LET t == last'.key
              j == tasks[t].Job
              after == [tasks EXCEPT ![t].Status = Allocated]
              bucket == {u \in DOMAIN tasks :
                            after[u].Job = j /\ after[u].Status = Allocated}
              ready == \A i \in 1..Len(jobReadyFns) :
                          ValidateFn(jobReadyFns[i], after, j)
          IN /\ ~ready => bindLog' = bindLog
             /\ ready =>
                  \A u \in DOMAIN tasks :
                     IF u \in bucket
                     THEN /\ Len(bindLog'[u]) = Len(bindLog[u]) + 1
                          /\ bindLog'[u][Len(bindLog'[u])] => tasks'[u].Status = Binding
                     ELSE bindLog'[u] = bindLog[u]]_vars

C2_Witness ==
    /\ last.op = "Allocate"
    /\ jobReadyFns # <<>>
    /\ Cardinality(DOMAIN binds) >= 2
    /\ \E u \in DOMAIN binds : u # last.key /\ binds[u] /\ tasks[u].Status = Binding

(***************************************************************************)
(* C7: when cache.Bind failed for a task dispatched by Allocate, Allocate  *)
(* returns a non-nil error.                                                *)
(***************************************************************************)
C7_BindErrorSurfaced ==
    (last.op = "Allocate" /\ \E u \in DOMAIN binds : ~binds[u]) => ret = "err"

(***************************************************************************)
(* C8: once cache.Bind has failed for a task, cache.Bind is never called   *)
(* for that task again in the session (no call follows a failed call), and *)
(* the task stays Allocated.                                               *)
(***************************************************************************)
C8_NoRetryAfterBindFailure ==
    \A t \in DOMAIN bindLog :
        /\ \A i \in 1..(Len(bindLog[t]) - 1) : bindLog[t][i]
        /\ (Len(bindLog[t]) > 0 /\ ~bindLog[t][Len(bindLog[t])])
              => tasks[t].Status = Allocated

(***************************************************************************)
(* C9: a Preempt call changes no task and nothing on the node; when        *)
(* cache.Evict fails it returns the error and runs no callback; when it    *)
(* succeeds it returns nil and runs, handler by handler in registration    *)
(* order, the handler's AllocateFunc on the preemptor and then its         *)
(* EvictFunc on the preemptee, each exactly once.                          *)
(***************************************************************************)
C9_PreemptCallbacks ==
    [][(evictLog' # evictLog)
       => LET a == last'.key
              b == last'.peer
              ev == events'
              Count(h, fn) == Cardinality({k \in 1..Len(ev) : ev[k].h = h /\ ev[k].fn = fn})
          IN /\ last'.op = "Preempt"
             /\ Len(evictLog'[b]) = Len(evictLog[b]) + 1
             /\ evictLog'[b][Len(evictLog'[b])] = last'.ok
             /\ ni' = ni
             /\ tasks' = tasks
             /\ ~last'.ok => ret' = "err" /\ ev = <<>>
             /\ last'.ok =>
                  /\ ret' = "nil"
                  /\ \A h \in 1..Len(eventHandlers) :
                        /\ Count(h, "AllocateFunc") = IF eventHandlers[h].alloc THEN 1 ELSE 0
                        /\ Count(h, "EvictFunc") = IF eventHandlers[h].evict THEN 1 ELSE 0
                  /\ \A k \in 1..Len(ev) :
                        /\ ev[k].h \in 1..Len(eventHandlers)
                        /\ ev[k].fn = "AllocateFunc" => ev[k].task = a
                        /\ ev[k].fn = "EvictFunc" => ev[k].task = b
                        /\ ev[k].fn \in {"AllocateFunc", "EvictFunc"}
                  /\ \A k, l \in 1..Len(ev) :
                        k < l => \/ ev[k].h < ev[l].h
                                 \/ /\ ev[k].h = ev[l].h
                                    /\ ev[k].fn = "AllocateFunc"
                                    /\ ev[l].fn = "EvictFunc"]_vars

C9_Witness ==
    /\ last.op = "Preempt"
    /\ last.ok
    /\ Len(eventHandlers) = 2
    /\ Len(events) = 3
    /\ ret = "nil"

(***************************************************************************)
(* C12 (as stated): Session.Allocate(task, node) followed by               *)
(* node.RemoveTask(task) leaves the node's Idle, Used and Releasing equal  *)
(* to their values before the Allocate, also when the task was already on  *)
(* the node before the Allocate.                                           *)
(***************************************************************************)
C12_RoundTripAlways ==
    (last.op = "RemoveTask" /\ Len(last.pre) = 1)
    => /\ ni.Idle = last.pre[1].Idle
       /\ ni.Used = last.pre[1].Used
       /\ ni.Releasing = last.pre[1].Releasing

(***************************************************************************)
(* C12 (amended): the round trip holds when the task was not on the node   *)
(* before the Allocate; the task is off the node afterwards in every case. *)
(***************************************************************************)
C12_RoundTripIfNotHeld ==
    (last.op = "RemoveTask" /\ Len(last.pre) = 1)
    => /\ last.key \notin ni.Tasks
       /\ ~last.pre[1].held
             => /\ ni.Idle = last.pre[1].Idle
                /\ ni.Used = last.pre[1].Used
                /\ ni.Releasing = last.pre[1].Releasing

C12_Witness ==
    /\ last.op = "RemoveTask"
    /\ Len(last.pre) = 1
    /\ ~last.pre[1].held
    /\ tasks[last.key].Status = Binding
    /\ ni.Used # EmptyResource

(***************************************************************************)
(* C13: Session.Pipeline(task, hostname) with an indexed node that does    *)
(* not hold the task yet applies exactly the effect of PipelineTask on the *)
(* real node: Idle, Allocatable and Capability are unchanged, Releasing    *)
(* decreases by task.Resreq, Used increases by task.Resreq and the task is *)
(* added to Tasks; the task's status becomes Pipelined (its job being      *)
(* indexed) and cache.Bind is not called.                                  *)
(***************************************************************************)
C13_PipelineFrame ==
    [][(/\ last'.op = "Pipeline"
        /\ last'.host \in NodeIndex
        /\ ni.Node
        /\ last'.key \notin ni.Tasks)
       => LET t == last'.key
              r == tasks[t].Resreq
          IN /\ ni'.Idle = ni.Idle
             /\ ni'.Allocatable = ni.Allocatable
             /\ ni'.Capability = ni.Capability
             /\ ni'.Releasing = Sub(ni.Releasing, r)
             /\ ni'.Used = Add(ni.Used, r)
             /\ ni'.Tasks = ni.Tasks \cup {t}
             /\ ni'.Node
             /\ tasks[t].Job \in JobIndex => tasks'[t].Status = Pipelined
             /\ tasks'[t].NodeName = last'.host
             /\ \A u \in DOMAIN tasks : u # t => tasks'[u] = tasks[u]
             /\ bindLog' = bindLog
             /\ binds' = NoBinds
             /\ ret' = "nil"]_vars

C13_Witness ==
    /\ last.op = "Pipeline"
    /\ last.host = TheHost
    /\ tasks[last.key].Status = Pipelined
    /\ last.key \in ni.Tasks
    /\ ni.Releasing = EmptyResource
    /\ ni.Used = NewResource(2, 2)
    /\ ni.Idle = NewResource(1, 1)
    /\ pipelinedTotal = NewResource(1, 1)

(***************************************************************************)
(* C10: Allocate and Pipeline called with a task whose job is not in       *)
(* JobIndex, or with a hostname not in NodeIndex, complete without         *)
(* failure: task.NodeName is the hostname, the missing side is skipped and *)
(* the other side is applied.                                              *)
(***************************************************************************)
C10_IndexMissCompletes ==
    (/\ last.op \in {"Allocate", "Pipeline"}
     /\ tasks[last.key].Job \notin JobIndex \/ last.host \notin NodeIndex)
    => /\ ret = "nil"
       /\ tasks[last.key].NodeName = last.host
       /\ tasks[last.key].Job \notin JobIndex => tasks[last.key].Status = Pending
       /\ tasks[last.key].Job \in JobIndex => tasks[last.key].Status # Pending
       /\ last.host \in NodeIndex => last.key \in ni.Tasks

(***************************************************************************)
(* C3: Execute stops only because preemptors or preemptees is empty at the *)
(* top of an iteration or because the selected preemptor job and preemptee *)
(* job are the same job; with no jobs it stops at once with no cache.Evict *)
(* call.                                                                   *)
(***************************************************************************)
C3_StopsOnlyOnEmptyOrSameJob ==
    /\ pc \notin {"idle", "loop"} => pc \in {"doneEmpty", "doneSame"}
    /\ pc = "doneEmpty" => preemptors = {} \/ preemptees = {}
    /\ JobIndex = {} => TotalEvicts = 0 /\ pc \in {"idle", "loop", "doneEmpty"}

(***************************************************************************)
(* C4: cross-job preemption.  Job A holds only Pending tasks (p >= 1), job *)
(* B only Running tasks (r >= 1), JobOrderFn puts A before B, Preemptable  *)
(* holds for every (task of A, task of B) and cache.Evict never fails:     *)
(* Execute ends normally after exactly min(p, r) cache.Evict calls, each   *)
(* on a distinct task of B.                                                *)
(***************************************************************************)
C4_CrossJobScenario ==
    /\ JobIndex = {JobA, JobB}
    /\ JobTasks(tasks, JobA) # {} /\ JobTasks(tasks, JobB) # {}
    /\ \A t \in JobTasks(tasks, JobA) : tasks[t].Status = Pending
    /\ \A t \in JobTasks(tasks, JobB) : tasks[t].Status = Running
    /\ JobOrderFn(JobA, JobB)
    /\ \A a \in JobTasks(tasks, JobA), b \in JobTasks(tasks, JobB) : Preemptable(a, b)
    /\ \A t \in DOMAIN evictLog : \A i \in 1..Len(evictLog[t]) : evictLog[t][i]

C4_CrossJobPreemption ==
    (C4_CrossJobScenario /\ pc \notin {"idle", "loop"})
    => LET p == Cardinality(JobTasks(tasks, JobA))
           r == Cardinality(JobTasks(tasks, JobB))
       IN /\ pc \in {"doneEmpty", "doneSame"}
          /\ TotalEvicts = IF p < r THEN p ELSE r
          /\ \A t \in DOMAIN evictLog :
                /\ Len(evictLog[t]) <= 1
                /\ Len(evictLog[t]) = 1 => tasks[t].Job = JobB

(***************************************************************************)
(* C5: single-job protection.  cache.Evict is never called on a task of    *)
(* the preemptor task's own job; with a single job in the session Execute  *)
(* makes no eviction and does not fail.                                    *)
(***************************************************************************)
C5_SingleJobProtection ==
    /\ last.op = "Preempt" => tasks[last.key].Job # tasks[last.peer].Job
    /\ Cardinality(JobIndex) = 1 => TotalEvicts = 0 /\ pc # "panic"

C5_Witness ==
    /\ pc = "doneSame"
    /\ JobIndex = {JobA}
    /\ TaskStatusIndex(tasks, JobA, Pending) # {}
    /\ TaskStatusIndex(tasks, JobA, Running) # {}
    /\ preemptableFns = <<"always">>

(***************************************************************************)
(* C17: in every pair for which Execute calls Session.Preempt, the job of  *)
(* the preemptor task is ordered before the job of the preemptee task by   *)
(* JobOrderFn.                                                             *)
(***************************************************************************)
C17_BestPreemptsWorst ==
    last.op = "Preempt" => JobOrderFn(tasks[last.key].Job, tasks[last.peer].Job)

(***************************************************************************)
(* C18: a step of Execute that pops a preemptor task is an attempt by a    *)
(* job taken from preemptors.  If the attempt is denied by Preemptable or  *)
(* its cache.Evict fails, every preemptee task is in its job's queue as    *)
(* before, the preemptee job is in preemptees, and the preemptor job is    *)
(* out of preemptors; no job ever enters preemptors again, so that job     *)
(* makes no further attempt.  If the attempt succeeds, the preemptor job   *)
(* is in preemptors, the preemptee job is in preemptees and the evicted    *)
(* task is out of its job's queue.                                         *)
(***************************************************************************)
C18_PushBack ==
    [][pc = "loop" =>
         /\ preemptors' \subseteq preemptors
         /\ preemptees' \subseteq preemptees
         /\ preemptorTasks' # preemptorTasks =>
               LET pj == CHOOSE j \in DOMAIN preemptorTasks :
                             preemptorTasks'[j] # preemptorTasks[j]
                   called == evictLog' # evictLog
                   preempted == called /\ last'.ok
               IN /\ pj \in preemptors
                  /\ \A j \in preemptees \ preemptees' : preempteeTasks[j] = {}
                  /\ IF preempted
                     THEN LET e == last'.peer
                              ej == tasks[e].Job
                          IN /\ pj \in preemptors'
                             /\ ej \in preemptees'
                             /\ e \in preempteeTasks[ej]
                             /\ preempteeTasks' = [preempteeTasks EXCEPT ![ej] = @ \ {e}]
                     ELSE /\ pj \notin preemptors'
                          /\ preempteeTasks' = preempteeTasks
                          /\ \E ej \in preemptees' : ej # pj /\ preempteeTasks'[ej] # {}
                          /\ called =>
                                /\ tasks[last'.peer].Job \in preemptees'
                                /\ last'.peer \in preempteeTasks'[tasks[last'.peer].Job]]_vars

C18_Witness ==
    /\ pc = "loop"
    /\ last.op = "Preempt"
    /\ ~last.ok
    /\ tasks[last.key].Job \notin preemptors
    /\ preemptorTasks[tasks[last.key].Job] # {}
    /\ tasks[last.peer].Job \in preemptees
    /\ last.peer \in preempteeTasks[tasks[last.peer].Job]

(***************************************************************************)
(* C20: every Pop of Execute is made on a non-empty queue: Execute never   *)
(* reaches the Pop of the inner loop with preemptees drained, and the task *)
(* queues of the selected jobs hold a task when one is popped from them.   *)
(***************************************************************************)
C20_EveryPopOnNonEmpty ==
    /\ pc # "panic"
    /\ last.op = "Preempt" =>
          /\ tasks[last.key].Status = Pending
          /\ tasks[last.peer].Status = Running

(***************************************************************************)
(* C6: cache.Evict is called only for a (preemptor, preemptee) pair for    *)
(* which at least one PreemptableFn is registered and every registered     *)
(* PreemptableFn returns true; with none registered no eviction is made.   *)
(***************************************************************************)
C6_EvictOnlyIfPreemptable ==
    /\ last.op = "Preempt" =>
          /\ Len(preemptableFns) >= 1
          /\ \A i \in 1..Len(preemptableFns) :
                PreemptableFn(preemptableFns[i], last.key, last.peer)
    /\ Len(preemptableFns) = 0 => TotalEvicts = 0

C6_Witness ==
    /\ last.op = "Preempt"
    /\ Len(preemptableFns) = 2
    /\ pc \in {"doneEmpty", "doneSame"}

====
